---- MODULE Spec2Model ----
(***************************************************************************)
(* Model of the YouTube-to-summary pipeline (youtube_to_summary.py) and of *)
(* its two callers: the Flask handler (app.py) and direct library use      *)
(* (example_usage.py).  Every pipeline instance works in the same fixed    *)
(* directory (youtube_to_summary.py:29), so the file system is one shared  *)
(* variable.                                                               *)
(***************************************************************************)
EXTENDS Integers, Sequences, FiniteSets, TLC

VARIABLES fs, pc, mode, url, runs, trace, transcription, summary, report,
          pending, result, clipOpen, response, request, call

\* the state of the pipelines and of their callers
\* request: the HTTP request the handler is working on
mainVars == <<fs, pc, mode, url, runs, trace, transcription, summary, report,
              pending, result, clipOpen, response, request>>

\* call: one operation of the pipeline called on its own, on a file system
\* and with an environment given at the start
vars == <<mainVars, call>>

(* ------------------------------ bounds --------------------------------- *)

\* pipeline instances alive at the same time (gunicorn runs several workers)
NumProcs == 2
Procs == 1..NumProcs

\* calls of process_youtube_url made on one pipeline instance
MaxRuns == 2

(* --------------------------- Python values ----------------------------- *)

\* a text is a sequence of tokens; the empty sequence is the empty string
PyNone == [kind |-> "None", s |-> <<>>]
PyTrue == [kind |-> "True", s |-> <<>>]
PyFalse == [kind |-> "False", s |-> <<>>]
PyStr(s) == [kind |-> "str", s |-> s]

\* variant: only None and False count as failure (`if x is None`)
TruthyNotNone(v) == v.kind = "True" \/ v.kind = "str"

\* Python truth value, as used by `if not x`
Truthy(v) == v.kind = "True" \/ (v.kind = "str" /\ v.s # <<>>)

\* a dict is a set of <<key, value>> pairs
Keys(d) == {kv[1] : kv \in d}

(* ------------------------------- URLs ---------------------------------- *)

\* a URL is a sequence of tokens; " " is white space
Urls ==
  { <<>>,
    <<" ">>,
    <<"https://", "example.com", "/x">>,
    <<"https://", "youtube.com", "/watch">>,
    <<" ", "https://", "youtu.be", "/x", " ">> }

RECURSIVE LStrip(_)
LStrip(s) == IF s # <<>> /\ Head(s) = " " THEN LStrip(Tail(s)) ELSE s

RECURSIVE RStrip(_)
RStrip(s) ==
  IF s # <<>> /\ s[Len(s)] = " " THEN RStrip(SubSeq(s, 1, Len(s) - 1)) ELSE s

\* str.strip()
Strip(s) == RStrip(LStrip(s))

\* 'youtube.com' in youtube_url or 'youtu.be' in youtube_url
IsYouTubeUrl(u) ==
  \E i \in 1..Len(u) : u[i] = "youtube.com" \/ u[i] = "youtu.be"

(* ---------------------------- file system ------------------------------ *)

\* dir, video, audio: 0 when absent, else the instance that created it
NoFiles == [dir |-> 0, video |-> 0, audio |-> 0]

\* os.path.exists(self.temp_dir)
DirExists(f) == f.dir # 0

\* what shutil.rmtree can leave behind when it raises part-way
RmtreePartial(f) ==
  {[dir |-> f.dir, video |-> v, audio |-> a] :
     v \in {0, f.video}, a \in {0, f.audio}}

\* variant: makedirs only, an existing directory is kept as it is
SetupOutcomesKeep(p, f, env) ==
  IF env = "ok"
    THEN {[raised |-> FALSE,
           fs |-> [dir |-> IF f.dir = 0 THEN p ELSE f.dir,
                   video |-> f.video, audio |-> f.audio]]}
    ELSE {[raised |-> TRUE, fs |-> f]}

\* _setup_temp_directory: rmtree an existing directory, then makedirs.
\* env = "oserror": the file system refuses the deletion or the creation.
SetupOutcomes(p, f, env) ==
  IF env = "ok"
    THEN {[raised |-> FALSE, fs |-> [dir |-> p, video |-> 0, audio |-> 0]]}
    ELSE IF DirExists(f)
      THEN {[raised |-> TRUE, fs |-> g] : g \in RmtreePartial(f)}
      ELSE {[raised |-> TRUE, fs |-> f]}

\* variant: cleanup that forgets the deletion
CleanupOutcomesNoDelete(f, env) == {[raised |-> FALSE, fs |-> f]}

\* cleanup: rmtree the directory if it exists; nothing is caught here
CleanupOutcomes(f, env) ==
  IF ~DirExists(f)
    THEN {[raised |-> FALSE, fs |-> f]}
    ELSE IF env = "ok"
      THEN {[raised |-> FALSE, fs |-> NoFiles]}
      ELSE {[raised |-> TRUE, fs |-> g] : g \in RmtreePartial(f)}

(* ------------------------------ stages --------------------------------- *)

\* the error string of each stage, as returned by process_youtube_url
Reason ==
  [download |-> "Failed to download YouTube video",
   convert |-> "Failed to convert video to audio",
   stt |-> "Failed to convert speech to text",
   summarize |-> "Failed to generate summary",
   report |-> "Failed to generate report"]

UnexpectedPrefix == "Pipeline failed with unexpected error: "

\* exceptions that can leave a stage (raised outside its try block)
Exceptions == {"UnicodeEncodeError"}

\* a stage call yields: the value returned (or the exception raised), the
\* file system and the state of the video clip handle afterwards
\* afterwards, and whether a request was posted to the remote service
Ret(v, f, open) ==
  [raised |-> FALSE, exc |-> "", ret |-> v, fs |-> f, open |-> open, sent |-> FALSE]
Raise(e, f, open) ==
  [raised |-> TRUE, exc |-> e, ret |-> PyNone, fs |-> f, open |-> open, sent |-> FALSE]

\* the same outcome, reached after requests.post was called
Posted(o) == [o EXCEPT !.sent = TRUE]

\* variant: a download that succeeds only on a file found at the path
DownloadNeedsStale(p, u, f, open, env) ==
  IF env \in Exceptions THEN Raise(env, f, open)
  ELSE IF env = "ok"
    THEN Ret(PyTrue, [dir |-> IF f.dir = 0 THEN p ELSE f.dir,
                      video |-> p, audio |-> f.audio], open)
  ELSE IF env = "cached" /\ f.video # 0 THEN Ret(PyTrue, f, open)
  ELSE Ret(PyFalse, f, open)

\* download_youtube_video.  env: what yt-dlp does.
\*   "ok"     the video is written (yt-dlp creates the directory if needed)
\*   "cached" as "ok", but a file already at the path is kept (yt-dlp does
\*            not overwrite a file it finds)
\*   "error"  extraction or download raises inside the try block
DownloadYoutubeVideo(p, u, f, open, env) ==
  IF env \in Exceptions THEN Raise(env, f, open)
  ELSE IF env = "ok"
    THEN Ret(PyTrue, [dir |-> IF f.dir = 0 THEN p ELSE f.dir,
                      video |-> p, audio |-> f.audio], open)
  ELSE IF env = "cached"
    THEN Ret(PyTrue, [dir |-> IF f.dir = 0 THEN p ELSE f.dir,
                      video |-> IF f.video = 0 THEN p ELSE f.video,
                      audio |-> f.audio], open)
  ELSE Ret(PyFalse, f, open)

\* convert_video_to_audio.  env: what moviepy does.
\*   "ok"          audio written, clip closed
\*   "open_error"  VideoFileClip raises: no clip was opened
\*   "audio_error" clip opened, clip.audio is None: nothing written
\*   "write_error" clip opened, write_audiofile raises part-way
ConvertVideoToAudio(p, f, open, env) ==
  IF env \in Exceptions THEN Raise(env, f, open)
  ELSE IF f.video = 0 THEN Ret(PyFalse, f, open)
  ELSE IF env = "ok" THEN Ret(PyTrue, [f EXCEPT !.audio = p], FALSE)
  ELSE IF env = "audio_error" THEN Ret(PyFalse, f, TRUE)
  ELSE IF env = "write_error" THEN Ret(PyFalse, [f EXCEPT !.audio = p], TRUE)
  ELSE Ret(PyFalse, f, open)

(* ------------------------ remote JSON responses ------------------------ *)

Fields == <<"content", "generated_text", "summary", "text", "transcription", "other">>
FieldSet == {Fields[i] : i \in 1..Len(Fields)}

\* values a field of the response can hold: "" or a text
Values == {PyStr(<<>>), PyStr(<<"t1">>), PyStr(<<"t2">>)}

\* a JSON object: a function from some field names to values
ResponsesOver(names, values) == UNION {[d -> values] : d \in SUBSET names}

\* repr of a value inside str(dict)
Repr(v) == IF v.kind = "str" THEN <<"'">> \o v.s \o <<"'">> ELSE <<v.kind>>

RECURSIVE StrItems(_, _)
StrItems(r, i) ==
  IF i > Len(Fields) THEN <<>>
  ELSE IF Fields[i] \in DOMAIN r
    THEN <<Fields[i], ":">> \o Repr(r[Fields[i]]) \o <<",">> \o StrItems(r, i + 1)
    ELSE StrItems(r, i + 1)

\* str(result) of a dict
Str(r) == PyStr(<<"{">> \o StrItems(r, 1) \o <<"}">>)

\* variant: the transcription client looks at text before content
ProbeOrderSwapped ==
  [stt |-> <<"text", "content", "transcription">>,
   summarize |-> <<"content", "summary", "text">>,
   report |-> <<"content", "text", "generated_text">>]

\* the probing order of each client
ProbeOrder ==
  [stt |-> <<"content", "text", "transcription">>,
   summarize |-> <<"content", "summary", "text">>,
   report |-> <<"content", "text", "generated_text">>]

\* variant: a response without a known field is a failure
ExtractStrict(order, r) ==
  IF order[1] \in DOMAIN r THEN r[order[1]]
  ELSE IF order[2] \in DOMAIN r THEN r[order[2]]
  ELSE IF order[3] \in DOMAIN r THEN r[order[3]]
  ELSE PyNone

\* if k1 in result ... elif k2 in result ... elif k3 in result ... else str(result)
Extract(order, r) ==
  IF order[1] \in DOMAIN r THEN r[order[1]]
  ELSE IF order[2] \in DOMAIN r THEN r[order[2]]
  ELSE IF order[3] \in DOMAIN r THEN r[order[3]]
  ELSE Str(r)

\* what a remote call meets: a transport error, timeout, non-2xx status or
\* unparsable body (kind "error", all caught inside the stage), an exception
\* leaving the stage (kind "raise"), or a JSON object (kind "json")
RemoteError == [kind |-> "error", exc |-> "", body |-> <<>>]
RemoteRaise(e) == [kind |-> "raise", exc |-> e, body |-> <<>>]
RemoteJson(r) == [kind |-> "json", exc |-> "", body |-> r]

\* the field names one client looks at, and one it does not know
Seen(stage) == {ProbeOrder[stage][i] : i \in 1..3} \cup {"other"}

\* an environment: the field names and values remote responses are drawn
\* from, and the URLs callers pass
FullEnv == [names |-> FieldSet, values |-> Values, urls |-> Urls]
SmallEnv ==
  [names |-> {"content"}, values |-> {PyStr(<<"t1">>)},
   urls |-> {<<"https://", "youtube.com", "/watch">>}]

RemoteEnvs(stage, e) ==
  {RemoteError} \cup {RemoteRaise(x) : x \in Exceptions}
    \cup {RemoteJson(r) : r \in ResponsesOver(e.names \cap Seen(stage), e.values)}

\* variant: the audio file is not looked for before the upload
SpeechToTextNoCheck(f, open, env) ==
  IF env.kind = "raise" THEN Raise(env.exc, f, open)
  ELSE IF env.kind = "error" THEN Posted(Ret(PyNone, f, open))
  ELSE Posted(Ret(Extract(ProbeOrder.stt, env.body), f, open))

\* speech_to_text
SpeechToText(f, open, env) ==
  IF env.kind = "raise" THEN Raise(env.exc, f, open)
  ELSE IF f.audio = 0 THEN Ret(PyNone, f, open)
  ELSE IF env.kind = "error" THEN Posted(Ret(PyNone, f, open))
  ELSE Posted(Ret(Extract(ProbeOrder.stt, env.body), f, open))

\* variant: no try/except around the request
SummarizeTextNoCatch(text, f, open, env) ==
  IF env.kind = "raise" THEN Raise(env.exc, f, open)
  ELSE IF env.kind = "error" THEN Posted(Raise("RequestException", f, open))
  ELSE Posted(Ret(Extract(ProbeOrder.summarize, env.body), f, open))

\* summarize_text
SummarizeText(text, f, open, env) ==
  IF env.kind = "raise" THEN Raise(env.exc, f, open)
  ELSE IF env.kind = "error" THEN Posted(Ret(PyNone, f, open))
  ELSE Posted(Ret(Extract(ProbeOrder.summarize, env.body), f, open))

\* generate_report
GenerateReport(text, f, open, env) ==
  IF env.kind = "raise" THEN Raise(env.exc, f, open)
  ELSE IF env.kind = "error" THEN Posted(Ret(PyNone, f, open))
  ELSE Posted(Ret(Extract(ProbeOrder.report, env.body), f, open))

(* ---------------------------- orchestrator ----------------------------- *)

ErrorResult(msg) == {<<"error", PyStr(msg)>>}
ContentResult(v) == {<<"content", v>>}

\* variant: the audio conversion is skipped
NextStageSkipping ==
  [download |-> "stt", convert |-> "stt", stt |-> "summarize",
   summarize |-> "report", report |-> "finally"]

NextStage ==
  [download |-> "convert", convert |-> "stt", stt |-> "summarize",
   summarize |-> "report", report |-> "finally"]

\* variant: a failed download returns at once, outside the try/finally
AfterStageEarlyReturn(stage, o) ==
  IF o.raised
    THEN [pc |-> "finally", pending |-> ErrorResult(<<UnexpectedPrefix, o.exc>>)]
  ELSE IF ~Truthy(o.ret)
    THEN [pc |-> IF stage = "download" THEN "returned" ELSE "finally",
          pending |-> ErrorResult(<<Reason[stage]>>)]
  ELSE IF stage = "report"
    THEN [pc |-> "finally", pending |-> ContentResult(o.ret)]
  ELSE [pc |-> NextStage[stage], pending |-> {}]

\* variant: the result of the download is not tested
AfterStageIgnoreFailure(stage, o) ==
  IF o.raised
    THEN [pc |-> "finally", pending |-> ErrorResult(<<UnexpectedPrefix, o.exc>>)]
  ELSE IF ~Truthy(o.ret) /\ stage # "download"
    THEN [pc |-> "finally", pending |-> ErrorResult(<<Reason[stage]>>)]
  ELSE IF stage = "report"
    THEN [pc |-> "finally", pending |-> ContentResult(o.ret)]
  ELSE [pc |-> NextStage[stage], pending |-> {}]

\* variant: every failure is reported with the reason of the download
AfterStageWrongReason(stage, o) ==
  IF o.raised
    THEN [pc |-> "finally", pending |-> ErrorResult(<<UnexpectedPrefix, o.exc>>)]
  ELSE IF ~Truthy(o.ret)
    THEN [pc |-> "finally", pending |-> ErrorResult(<<Reason["download"]>>)]
  ELSE IF stage = "report"
    THEN [pc |-> "finally", pending |-> ContentResult(o.ret)]
  ELSE [pc |-> NextStage[stage], pending |-> {}]

\* variant: no except clause, the exception of a stage leaves the run
AfterStageNoCatch(stage, o) ==
  IF o.raised
    THEN [pc |-> "raised", pending |-> {}]
  ELSE IF ~Truthy(o.ret)
    THEN [pc |-> "finally", pending |-> ErrorResult(<<Reason[stage]>>)]
  ELSE IF stage = "report"
    THEN [pc |-> "finally", pending |-> ContentResult(o.ret)]
  ELSE [pc |-> NextStage[stage], pending |-> {}]

\* the branch process_youtube_url takes after a stage call: where control
\* goes and the value of the return statement it executes, if any
AfterStage(stage, o) ==
  IF o.raised
    THEN [pc |-> "finally", pending |-> ErrorResult(<<UnexpectedPrefix, o.exc>>)]
  ELSE IF ~Truthy(o.ret)
    THEN [pc |-> "finally", pending |-> ErrorResult(<<Reason[stage]>>)]
  ELSE IF stage = "report"
    THEN [pc |-> "finally", pending |-> ContentResult(o.ret)]
  ELSE [pc |-> NextStage[stage], pending |-> {}]

\* variant: the report is generated from the transcription
StageArgSwapped(stage, u, t, s) ==
  IF stage = "download" THEN PyStr(u)
  ELSE IF stage = "summarize" THEN t
  ELSE IF stage = "report" THEN t
  ELSE PyNone

\* the argument process_youtube_url passes to a stage: u the URL, t the
\* transcription, s the summary
StageArg(stage, u, t, s) ==
  IF stage = "download" THEN PyStr(u)
  ELSE IF stage = "summarize" THEN t
  ELSE IF stage = "report" THEN s
  ELSE PyNone

\* one entry of the run's history: the call made, its argument and outcome
Entry(op, arg, o) ==
  [op |-> op, arg |-> arg,
   out |-> IF o.raised THEN "raise" ELSE IF Truthy(o.ret) THEN "ok" ELSE "fail",
   ret |-> o.ret]

(* --------------------------- HTTP front end ---------------------------- *)

NoResponse == [status |-> 0, success |-> FALSE, data |-> {}, error |-> <<>>]
HttpError(status, msg) ==
  [status |-> status, success |-> FALSE, data |-> {}, error |-> msg]
HttpOk(d) == [status |-> 200, success |-> TRUE, data |-> d, error |-> <<>>]

\* a POST /api/v1/summarize request.
\*   is_json     the Content-Type header announces JSON (request.is_json)
\*   valid_json  the body can be parsed as JSON
\*   has_url     the parsed body is an object with the key youtube_url
\*   is_str      the value of youtube_url is a string
\*   url         that string
NoRequest ==
  [is_json |-> FALSE, valid_json |-> FALSE, has_url |-> FALSE,
   is_str |-> FALSE, url |-> <<"none">>]

Req(j, v, h, s, u) ==
  [is_json |-> j, valid_json |-> v, has_url |-> h, is_str |-> s, url |-> u]

Requests(urls) ==
  {Req(FALSE, FALSE, FALSE, FALSE, <<>>),
   Req(FALSE, TRUE, FALSE, FALSE, <<>>),
   Req(TRUE, FALSE, FALSE, FALSE, <<>>),
   Req(TRUE, TRUE, FALSE, FALSE, <<>>),
   Req(TRUE, TRUE, TRUE, FALSE, <<>>)}
    \cup {Req(TRUE, TRUE, TRUE, TRUE, u) : u \in urls}

\* the response of the except block of summarize_youtube
InternalServerError(e) == HttpError(500, <<"Internal server error: ", e>>)

\* variant: the domain markers are not looked for
ValidateNoDomainCheck(req) ==
  IF ~req.is_json
    THEN HttpError(400, <<"Content-Type must be application/json">>)
  ELSE IF ~req.valid_json THEN InternalServerError("BadRequest")
  ELSE IF ~req.has_url
    THEN HttpError(400, <<"Missing required field 'youtube_url'">>)
  ELSE IF ~req.is_str THEN InternalServerError("AttributeError")
  ELSE IF Strip(req.url) = <<>>
    THEN HttpError(400, <<"YouTube URL cannot be empty">>)
  ELSE NoResponse

\* the validation at the head of summarize_youtube: the response it returns,
\* or NoResponse when the request goes on to the pipeline.  request.get_json()
\* raises BadRequest on a body it cannot parse, and .strip() raises
\* AttributeError on a value that is not a string: both are raised inside
\* the try block and answered by its except clause.
Validate(req) ==
  IF ~req.is_json
    THEN HttpError(400, <<"Content-Type must be application/json">>)
  ELSE IF ~req.valid_json THEN InternalServerError("BadRequest")
  ELSE IF ~req.has_url
    THEN HttpError(400, <<"Missing required field 'youtube_url'">>)
  ELSE IF ~req.is_str THEN InternalServerError("AttributeError")
  ELSE IF Strip(req.url) = <<>>
    THEN HttpError(400, <<"YouTube URL cannot be empty">>)
  ELSE IF ~IsYouTubeUrl(Strip(req.url))
    THEN HttpError(400, <<"Invalid YouTube URL. Must be a valid YouTube link.">>)
  ELSE NoResponse

\* variant: every result of the pipeline is answered as a success
ResponseOfAlwaysOk(res) == HttpOk(res)

\* the response summarize_youtube builds from the pipeline result
ResponseOf(res) ==
  IF "error" \in Keys(res)
    THEN HttpError(500, (CHOOSE kv \in res : kv[1] = "error")[2].s)
    ELSE HttpOk(res)

(* ------------------------------ actions -------------------------------- *)

\* no pipeline exists yet
MainInit ==
  /\ fs = NoFiles
  /\ pc = [p \in Procs |-> "idle"]
  /\ mode = [p \in Procs |-> "none"]
  /\ url = [p \in Procs |-> <<>>]
  /\ runs = [p \in Procs |-> 0]
  /\ trace = [p \in Procs |-> <<>>]
  /\ transcription = [p \in Procs |-> PyNone]
  /\ summary = [p \in Procs |-> PyNone]
  /\ report = [p \in Procs |-> PyNone]
  /\ pending = [p \in Procs |-> {}]
  /\ result = [p \in Procs |-> {}]
  /\ clipOpen = [p \in Procs |-> FALSE]
  /\ response = [p \in Procs |-> NoResponse]
  /\ request = [p \in Procs |-> NoRequest]

\* no operation is called on its own
NoCall ==
  [stage |-> "none", fs |-> NoFiles, open |-> FALSE,
   env |-> [kind |-> "none", exc |-> "", body |-> <<>>], done |-> FALSE,
   out |-> [raised |-> FALSE, ret |-> PyNone, fs |-> NoFiles, open |-> FALSE,
            sent |-> FALSE, pc |-> "none", pending |-> {}]]

Init == MainInit /\ call = NoCall

\* summarize_youtube up to the construction of the pipeline
SummarizeYoutube(p, req) ==
  /\ pc[p] = "idle"
  /\ mode' = [mode EXCEPT ![p] = "api"]
  /\ IF Validate(req) = NoResponse
       THEN /\ pc' = [pc EXCEPT ![p] = "construct"]
            /\ url' = [url EXCEPT ![p] = Strip(req.url)]
            /\ response' = [response EXCEPT ![p] = NoResponse]
       ELSE /\ pc' = [pc EXCEPT ![p] = "responded"]
            /\ url' = [url EXCEPT ![p] = req.url]
            /\ response' = [response EXCEPT ![p] = Validate(req)]
  /\ request' = [request EXCEPT ![p] = req]
  /\ runs' = [runs EXCEPT ![p] = 0]
  /\ trace' = [trace EXCEPT ![p] = <<>>]
  /\ result' = [result EXCEPT ![p] = {}]
  /\ UNCHANGED <<fs, transcription, summary, report, pending, clipOpen, call>>

\* a program that uses the class directly, with any URL
DirectUse(p, u) ==
  /\ pc[p] = "idle"
  /\ mode' = [mode EXCEPT ![p] = "direct"]
  /\ pc' = [pc EXCEPT ![p] = "construct"]
  /\ url' = [url EXCEPT ![p] = u]
  /\ runs' = [runs EXCEPT ![p] = 0]
  /\ trace' = [trace EXCEPT ![p] = <<>>]
  /\ result' = [result EXCEPT ![p] = {}]
  /\ response' = [response EXCEPT ![p] = NoResponse]
  /\ request' = [request EXCEPT ![p] = NoRequest]
  /\ UNCHANGED <<fs, transcription, summary, report, pending, clipOpen, call>>

\* YouTubeToSummaryPipeline(api_key): __init__ and _setup_temp_directory
Construct(p, env) ==
  /\ pc[p] = "construct"
  /\ \E o \in SetupOutcomes(p, fs, env) :
       /\ fs' = o.fs
       /\ pc' = [pc EXCEPT ![p] = IF o.raised THEN "crashed" ELSE "ready"]
  /\ UNCHANGED <<mode, url, runs, trace, transcription, summary, report,
                 pending, result, clipOpen, response, request, call>>

\* entry of process_youtube_url, on a new or an already used instance
ProcessYoutubeUrl(p) ==
  /\ \/ pc[p] = "ready"
     \/ pc[p] \in {"returned", "raised"} /\ mode[p] = "direct"
  /\ runs[p] < MaxRuns
  /\ runs' = [runs EXCEPT ![p] = @ + 1]
  /\ pc' = [pc EXCEPT ![p] = "download"]
  /\ trace' = [trace EXCEPT ![p] = <<>>]
  /\ transcription' = [transcription EXCEPT ![p] = PyNone]
  /\ summary' = [summary EXCEPT ![p] = PyNone]
  /\ report' = [report EXCEPT ![p] = PyNone]
  /\ pending' = [pending EXCEPT ![p] = {}]
  /\ result' = [result EXCEPT ![p] = {}]
  /\ UNCHANGED <<fs, mode, url, clipOpen, response, request, call>>

\* the argument of the call of stage in the current state
Arg(p, stage) == StageArg(stage, url[p], transcription[p], summary[p])

\* what every stage step does with the outcome o of its stage call
Advance(p, stage, o) ==
  /\ fs' = o.fs
  /\ clipOpen' = [clipOpen EXCEPT ![p] = o.open]
  /\ trace' = [trace EXCEPT ![p] = Append(@, Entry(stage, Arg(p, stage), o))]
  /\ pc' = [pc EXCEPT ![p] = AfterStage(stage, o).pc]
  /\ pending' = [pending EXCEPT ![p] = AfterStage(stage, o).pending]
  /\ UNCHANGED <<mode, url, runs, result, response, request, call>>

\* Step 1: download_youtube_video(youtube_url)
Download(p, env) ==
  /\ pc[p] = "download"
  /\ Advance(p, "download",
             DownloadYoutubeVideo(p, Arg(p, "download").s, fs, clipOpen[p], env))
  /\ UNCHANGED <<transcription, summary, report>>

\* Step 2: convert_video_to_audio()
Convert(p, env) ==
  /\ pc[p] = "convert"
  /\ Advance(p, "convert", ConvertVideoToAudio(p, fs, clipOpen[p], env))
  /\ UNCHANGED <<transcription, summary, report>>

\* Step 3: transcription = speech_to_text()
Transcribe(p, env) ==
  /\ pc[p] = "stt"
  /\ LET o == SpeechToText(fs, clipOpen[p], env) IN
       /\ Advance(p, "stt", o)
       /\ transcription' = [transcription EXCEPT ![p] = o.ret]
  /\ UNCHANGED <<summary, report>>

\* Step 4: summary = summarize_text(transcription)
Summarize(p, env) ==
  /\ pc[p] = "summarize"
  /\ LET o == SummarizeText(Arg(p, "summarize"), fs, clipOpen[p], env) IN
       /\ Advance(p, "summarize", o)
       /\ summary' = [summary EXCEPT ![p] = o.ret]
  /\ UNCHANGED <<transcription, report>>

\* Step 5: report = generate_report(summary)
Report(p, env) ==
  /\ pc[p] = "report"
  /\ LET o == GenerateReport(Arg(p, "report"), fs, clipOpen[p], env) IN
       /\ Advance(p, "report", o)
       /\ report' = [report EXCEPT ![p] = o.ret]
  /\ UNCHANGED <<transcription, summary>>

\* the finally block: cleanup(), then the pending return takes effect
Finally(p, env) ==
  /\ pc[p] = "finally"
  /\ \E o \in CleanupOutcomes(fs, env) :
       /\ fs' = o.fs
       /\ trace' = [trace EXCEPT ![p] =
            Append(@, [op |-> "cleanup", arg |-> PyNone,
                       out |-> IF o.raised THEN "raise" ELSE "ok",
                       ret |-> PyNone])]
       /\ pc' = [pc EXCEPT ![p] = IF o.raised THEN "raised" ELSE "returned"]
       /\ result' = [result EXCEPT ![p] = IF o.raised THEN {} ELSE pending[p]]
  /\ UNCHANGED <<mode, url, runs, transcription, summary, report, pending,
                 clipOpen, response, request, call>>

\* summarize_youtube after the pipeline call: the response from the result,
\* or the except block when the constructor or the run raised
Respond(p) ==
  /\ mode[p] = "api"
  /\ pc[p] \in {"returned", "raised", "crashed"}
  /\ response' = [response EXCEPT ![p] =
       IF pc[p] = "returned" THEN ResponseOf(result[p])
       ELSE InternalServerError("OSError")]
  /\ pc' = [pc EXCEPT ![p] = "responded"]
  /\ UNCHANGED <<fs, mode, url, runs, trace, transcription, summary, report,
                 pending, result, clipOpen, request, call>>

\* the request is over, or the program drops its pipeline object
Release(p) ==
  /\ \/ pc[p] = "responded"
     \/ pc[p] \in {"returned", "raised", "crashed"} /\ mode[p] = "direct"
  /\ pc' = [pc EXCEPT ![p] = "idle"]
  /\ mode' = [mode EXCEPT ![p] = "none"]
  /\ url' = [url EXCEPT ![p] = <<>>]
  /\ runs' = [runs EXCEPT ![p] = 0]
  /\ trace' = [trace EXCEPT ![p] = <<>>]
  /\ transcription' = [transcription EXCEPT ![p] = PyNone]
  /\ summary' = [summary EXCEPT ![p] = PyNone]
  /\ report' = [report EXCEPT ![p] = PyNone]
  /\ pending' = [pending EXCEPT ![p] = {}]
  /\ result' = [result EXCEPT ![p] = {}]
  /\ clipOpen' = [clipOpen EXCEPT ![p] = FALSE]
  /\ response' = [response EXCEPT ![p] = NoResponse]
  /\ request' = [request EXCEPT ![p] = NoRequest]
  /\ UNCHANGED <<fs, call>>

FsEnvs == {"ok", "oserror"}
DownloadEnvs == {"ok", "cached", "error"} \cup Exceptions
ConvertEnvs ==
  {"ok", "open_error", "audio_error", "write_error"} \cup Exceptions

\* the steps of one instance in environment e
Step(p, e) ==
  \/ \E req \in Requests(e.urls) : SummarizeYoutube(p, req)
  \/ \E u \in e.urls : DirectUse(p, u)
  \/ \E env \in FsEnvs : Construct(p, env)
  \/ ProcessYoutubeUrl(p)
  \/ \E env \in DownloadEnvs : Download(p, env)
  \/ \E env \in ConvertEnvs : Convert(p, env)
  \/ \E env \in RemoteEnvs("stt", e) : Transcribe(p, env)
  \/ \E env \in RemoteEnvs("summarize", e) : Summarize(p, env)
  \/ \E env \in RemoteEnvs("report", e) : Report(p, env)
  \/ \E env \in FsEnvs : Finally(p, env)
  \/ Respond(p)
  \/ Release(p)

\* one pipeline at a time (the use the pipeline is designed for)
Next == Step(1, FullEnv)

Spec == Init /\ [][Next]_vars

\* the steps made inside process_youtube_url: the five stage calls and the
\* finally block
RunStep(p, e) ==
  \/ \E env \in DownloadEnvs : Download(p, env)
  \/ \E env \in ConvertEnvs : Convert(p, env)
  \/ \E env \in RemoteEnvs("stt", e) : Transcribe(p, env)
  \/ \E env \in RemoteEnvs("summarize", e) : Summarize(p, env)
  \/ \E env \in RemoteEnvs("report", e) : Report(p, env)
  \/ \E env \in FsEnvs : Finally(p, env)

\* one pipeline at a time; whether a run ends does not depend on the texts
\* the services answer with, so these are drawn from the small environment
NextFair == Step(1, SmallEnv)

\* every stage call and the cleanup come back (every request to a remote
\* service carries a timeout, no loop retries a call) and the sequential
\* code then goes on; nothing obliges a caller to send a request, to read
\* the answer or to start another run
SpecFair == Init /\ [][NextFair]_vars /\ WF_vars(RunStep(1, SmallEnv))

\* several pipelines at once, as under gunicorn's worker processes
NextConc == \E p \in Procs : Step(p, SmallEnv)

SpecConc == Init /\ [][NextConc]_vars

(* ------------------- one operation called on its own ------------------- *)

\* the instance that makes the call
Caller == 1

LocalEnv(x) == [kind |-> x, exc |-> "", body |-> <<>>]

CallStages ==
  {"setup", "download", "convert", "stt", "summarize", "report", "cleanup"}

\* the file systems a call can meet: files only inside a directory
FsStates ==
  {f \in [dir : 0..NumProcs, video : 0..NumProcs, audio : 0..NumProcs] :
     f.dir = 0 => f.video = 0 /\ f.audio = 0}

CallEnvs(stage) ==
  IF stage \in {"setup", "cleanup"} THEN {LocalEnv(x) : x \in FsEnvs}
  ELSE IF stage = "download" THEN {LocalEnv(x) : x \in DownloadEnvs}
  ELSE IF stage = "convert" THEN {LocalEnv(x) : x \in ConvertEnvs}
  ELSE RemoteEnvs(stage, FullEnv)

Calls ==
  UNION {{[stage |-> st, fs |-> f, open |-> FALSE, env |-> e, done |-> FALSE,
           out |-> NoCall.out] : f \in FsStates, e \in CallEnvs(st)} :
         st \in CallStages}

\* the text handed to summarize_text and generate_report in such a call
CallText == PyStr(<<"t1">>)

\* the call of one of the five stages
StageOutcome(p, stage, f, open, env) ==
  IF stage = "download"
    THEN DownloadYoutubeVideo(p, <<"https://", "youtube.com", "/watch">>,
                              f, open, env.kind)
  ELSE IF stage = "convert" THEN ConvertVideoToAudio(p, f, open, env.kind)
  ELSE IF stage = "stt" THEN SpeechToText(f, open, env)
  ELSE IF stage = "summarize" THEN SummarizeText(CallText, f, open, env)
  ELSE GenerateReport(CallText, f, open, env)

\* what the call can lead to: the outcome of the operation and, for a
\* stage, the branch process_youtube_url takes on it
CallOutcomes(c) ==
  IF c.stage = "setup"
    THEN {[raised |-> o.raised, ret |-> PyNone, fs |-> o.fs, open |-> c.open,
           sent |-> FALSE, pc |-> IF o.raised THEN "crashed" ELSE "ready",
           pending |-> {}] : o \in SetupOutcomes(Caller, c.fs, c.env.kind)}
  ELSE IF c.stage = "cleanup"
    THEN {[raised |-> o.raised, ret |-> PyNone, fs |-> o.fs, open |-> c.open,
           sent |-> FALSE, pc |-> IF o.raised THEN "raised" ELSE "returned",
           pending |-> {}] : o \in CleanupOutcomes(c.fs, c.env.kind)}
  ELSE LET o == StageOutcome(Caller, c.stage, c.fs, c.open, c.env) IN
    {[raised |-> o.raised, ret |-> o.ret, fs |-> o.fs, open |-> o.open,
      sent |-> o.sent, pc |-> AfterStage(c.stage, o).pc,
      pending |-> AfterStage(c.stage, o).pending]}

InitCall == MainInit /\ call \in Calls

\* the operation is called and returns or raises
CallOperation ==
  /\ call.stage # "none"
  /\ ~call.done
  /\ \E out \in CallOutcomes(call) :
       call' = [call EXCEPT !.done = TRUE, !.out = out]
  /\ UNCHANGED mainVars

NextCall == CallOperation

SpecCall == InitCall /\ [][NextCall]_vars

(* ------------------------------ properties ----------------------------- *)

\* the run of p has left process_youtube_url, by return or by exception
Ended(p) == pc[p] \in {"returned", "raised"}

\* p has a pipeline whose teardown has not happened yet
Active(p) ==
  pc[p] \in {"ready", "download", "convert", "stt", "summarize", "report", "finally"}

IsStage(e) == e.op # "cleanup"
Cleanups(t) == {i \in 1..Len(t) : t[i].op = "cleanup"}
AllFiveOk(t) == Len(t) >= 5 /\ \A i \in 1..5 : t[i].out = "ok"

\* C1: every run of process_youtube_url, whatever its stages do, ends with a
\* result that has exactly one of the keys content and error
ExactlyOneResult ==
  \A p \in Procs :
    Ended(p) =>
      /\ Cardinality(result[p]) = 1
      /\ Keys(result[p]) \in {{"content"}, {"error"}}

\* C2: when process_youtube_url returns, the workspace directory does not
\* exist, whether the run succeeded or failed at any stage
NoWorkspaceAfterReturn ==
  \A p \in Procs : pc[p] = "returned" => ~DirExists(fs)

\* a run that failed at its last stage, after the workspace was filled, has
\* returned
WitnessC2 ==
  /\ pc[1] = "returned"
  /\ Len(trace[1]) = 6
  /\ trace[1][5].out = "fail"
  /\ "error" \in Keys(result[1])

\* C3: cleanup is invoked exactly once in every run, as the last call of the
\* run, and not before the run has decided its result
CleanupOnceAndLast ==
  \A p \in Procs :
    /\ Cleanups(trace[p]) \subseteq {Len(trace[p])}
    /\ Ended(p) => Cleanups(trace[p]) = {Len(trace[p])} /\ trace[p] # <<>>
    /\ result[p] # {} => Cleanups(trace[p]) # {}
    /\ Cleanups(trace[p]) # {} => pending[p] # {}

\* a run that went through all five stages has returned its content
WitnessC3 ==
  /\ pc[1] = "returned"
  /\ "content" \in Keys(result[1])
  /\ Len(trace[1]) = 6

\* C4: after a stage has failed, no later stage is invoked: the only call
\* that can follow is the cleanup; a failed download is the only stage call
NoStageAfterFailure ==
  \A p \in Procs :
    /\ \A i \in 1..Len(trace[p]) :
         IsStage(trace[p][i]) /\ trace[p][i].out # "ok" =>
           \A j \in (i + 1)..Len(trace[p]) : ~IsStage(trace[p][j])
    /\ trace[p] # <<>> /\ trace[p][1].out = "fail" =>
         {i \in 1..Len(trace[p]) : IsStage(trace[p][i])} = {1}

\* a run whose download failed has returned
WitnessC4 ==
  /\ pc[1] = "returned"
  /\ Len(trace[1]) = 2
  /\ trace[1][1].op = "download"
  /\ trace[1][1].out = "fail"

\* C5: the error of a failed run is the reason of the one stage that failed,
\* the reasons of the five stages are distinct, and a failed download gives
\* {"error": "Failed to download YouTube video"}
FirstFailureReason ==
  /\ \A s, t \in DOMAIN Reason : s # t => Reason[s] # Reason[t]
  /\ \A p \in Procs : \A i \in 1..Len(trace[p]) :
       IsStage(trace[p][i]) /\ trace[p][i].out = "fail" =>
         /\ pending[p] = {<<"error", PyStr(<<Reason[trace[p][i].op]>>)>>}
         /\ trace[p][i].op = "download" =>
              pending[p] = {<<"error", PyStr(<<"Failed to download YouTube video">>)>>}
         /\ pc[p] = "returned" => result[p] = pending[p]

\* a run that failed at the transcription has returned
WitnessC5 ==
  /\ pc[1] = "returned"
  /\ Len(trace[1]) = 4
  /\ trace[1][3].op = "stt"
  /\ trace[1][3].out = "fail"

\* C6 as stated: with a URL that has no YouTube marker no pipeline is ever
\* constructed and no stage is invoked
NoActivityWithoutMarker ==
  \A p \in Procs :
    ~IsYouTubeUrl(url[p]) =>
      /\ pc[p] \in {"idle", "construct", "responded"}
      /\ trace[p] = <<>>

\* the handler reads the request without an exception: a body announced as
\* JSON can be parsed, and the value of youtube_url is a string
Readable(req) == req.is_json => req.valid_json /\ (req.has_url => req.is_str)

\* C6 as amended: the HTTP handler answers a URL that has no YouTube marker
\* with a 400 validation error, without constructing a pipeline or invoking
\* a stage
HandlerRejectsWithoutMarker ==
  \A p \in Procs :
    mode[p] = "api" /\ Readable(request[p]) /\ ~IsYouTubeUrl(url[p]) =>
      /\ pc[p] = "responded"
      /\ response[p].status = 400
      /\ ~response[p].success
      /\ response[p].error # <<>>
      /\ trace[p] = <<>>
      /\ runs[p] = 0

\* the handler has answered a request for https://example.com/x
WitnessC6 ==
  /\ mode[1] = "api"
  /\ url[1] = <<"https://", "example.com", "/x">>
  /\ pc[1] = "responded"
  /\ response[1].status = 400

\* C7: when all five stages succeed the result is the content returned by
\* the report generator, the summarizer was given the transcription and the
\* report generator the summary
PayloadsFlowThrough ==
  \A p \in Procs :
    /\ Len(trace[p]) >= 4 /\ IsStage(trace[p][4]) =>
         trace[p][4].arg = trace[p][3].ret
    /\ Len(trace[p]) >= 5 /\ IsStage(trace[p][5]) =>
         trace[p][5].arg = trace[p][4].ret
    /\ AllFiveOk(trace[p]) =>
         /\ pending[p] = {<<"content", trace[p][5].ret>>}
         /\ pc[p] = "returned" => result[p] = {<<"content", trace[p][5].ret>>}

\* a run with three different payloads has returned the report
WitnessC7 ==
  /\ pc[1] = "returned"
  /\ AllFiveOk(trace[1])
  /\ trace[1][3].ret = PyStr(<<"t1">>)
  /\ trace[1][4].ret = PyStr(<<"t2">>)
  /\ trace[1][5].ret = Str(<<>>)
  /\ result[1] = {<<"content", Str(<<>>)>>}

\* C8: an exception raised by a stage does not leave the run: the return
\* value becomes the generic error, and the cleanup is still called
StageExceptionContained ==
  \A p \in Procs : \A i \in 1..Len(trace[p]) :
    IsStage(trace[p][i]) /\ trace[p][i].out = "raise" =>
      /\ pending[p] \in
           {{<<"error", PyStr(<<UnexpectedPrefix, e>>)>>} : e \in Exceptions}
      /\ pc[p] = "finally" \/ Cleanups(trace[p]) = {i + 1}
      /\ pc[p] = "returned" => result[p] = pending[p]

\* a run whose summarizer raised has returned the generic error
WitnessC8 ==
  /\ pc[1] = "returned"
  /\ Len(trace[1]) = 5
  /\ trace[1][4].out = "raise"
  /\ "error" \in Keys(result[1])

\* C9: cleanup never raises: no run is left by an exception of the cleanup,
\* and cleanup of an absent directory changes nothing
CleanupNeverRaises ==
  /\ \A env \in FsEnvs :
       CleanupOutcomes(NoFiles, env) = {[raised |-> FALSE, fs |-> NoFiles]}
  /\ \A p \in Procs : pc[p] # "raised"

\* C10: while an instance is between its construction and its teardown, no
\* step of another instance removes its directory or its artifacts
NoCrossDeletion ==
  [][\A p, q \in Procs :
       (p # q /\ Active(q) /\ pc'[p] # pc[p] /\ pc'[q] = pc[q]) =>
         /\ fs.dir = q => fs'.dir = q
         /\ fs.video = q => fs'.video = q
         /\ fs.audio = q => fs'.audio = q]_vars

\* C11: when the first stage of a run begins, on a new instance or on one
\* that has run before, the workspace directory exists and is empty
FreshWorkspaceAtRunStart ==
  \A p \in Procs :
    pc[p] = "download" => DirExists(fs) /\ fs.video = 0 /\ fs.audio = 0

\* the files the current run of p has produced itself, in a workspace of
\* its own
OwnFiles(p) ==
  [dir |-> p,
   video |-> IF \E i \in 1..Len(trace[p]) :
                  trace[p][i].op = "download" /\ trace[p][i].out = "ok"
               THEN p ELSE 0,
   audio |-> IF \E i \in 1..Len(trace[p]) :
                  trace[p][i].op = "convert" /\ trace[p][i].out = "ok"
               THEN p ELSE 0]

SameVerdict(a, b) == a.raised = b.raised /\ a.ret = b.ret

\* the result process_youtube_url owes to the stage calls of a finished run
ResultOwed(t) ==
  LET e == t[Len(t) - 1] IN
    IF e.out = "ok" THEN {<<"content", e.ret>>}
    ELSE IF e.out = "fail" THEN {<<"error", PyStr(<<Reason[e.op]>>)>>}
    ELSE {<<"error", PyStr(<<UnexpectedPrefix, "UnicodeEncodeError">>)>>}

DocumentedOrder ==
  [stt |-> <<"content", "text", "transcription">>,
   summarize |-> <<"content", "summary", "text">>,
   report |-> <<"content", "text", "generated_text">>]

RemoteStages == {"stt", "summarize", "report"}

\* a finished call of a remote client that got a JSON object as answer
AnsweredCall ==
  /\ call.done
  /\ call.stage \in RemoteStages
  /\ call.env.kind = "json"
  /\ call.stage = "stt" => call.fs.audio # 0

KnownFields(stage) == {DocumentedOrder[stage][i] : i \in 1..3}

RECURSIVE FirstPresent(_, _)
FirstPresent(keys, r) ==
  IF keys = <<>> THEN Str(r)
  ELSE IF Head(keys) \in DOMAIN r THEN r[Head(keys)]
  ELSE FirstPresent(Tail(keys), r)

\* C14: each client returns the value of the first field present in its
\* documented order, and the stringification only when none is present
ProbingOrderFollowed ==
  AnsweredCall =>
    call.out.ret = FirstPresent(DocumentedOrder[call.stage], call.env.body)

\* the transcription client was answered with content and text and
\* returned the content
WitnessC14 ==
  /\ call.done
  /\ call.stage = "stt"
  /\ call.fs.audio # 0
  /\ call.env.kind = "json"
  /\ DOMAIN call.env.body = {"content", "text"}
  /\ call.env.body["content"] = PyStr(<<"t1">>)
  /\ call.env.body["text"] = PyStr(<<"t2">>)
  /\ call.out.ret = PyStr(<<"t1">>)

IsEmptyText(v) == v.kind = "None" \/ (v.kind = "str" /\ v.s = <<>>)

\* C15: an empty output of a remote stage ends the run with the error of
\* that stage: no client is called with an empty text and no content result
\* carries an empty report
EmptyOutputFails ==
  \A p \in Procs :
    /\ \A i \in 1..Len(trace[p]) :
         /\ trace[p][i].op \in {"summarize", "report"} =>
              ~IsEmptyText(trace[p][i].arg)
         /\ trace[p][i].op \in RemoteStages /\ trace[p][i].out # "raise"
              /\ IsEmptyText(trace[p][i].ret) =>
              pending[p] = {<<"error", PyStr(<<Reason[trace[p][i].op]>>)>>}
    /\ \A kv \in result[p] \cup pending[p] :
         kv[1] = "content" => ~IsEmptyText(kv[2])

\* the summarizer returned "" and the run has returned its error
WitnessC15 ==
  /\ pc[1] = "returned"
  /\ Len(trace[1]) = 5
  /\ trace[1][4].ret = PyStr(<<>>)
  /\ result[1] = {<<"error", PyStr(<<"Failed to generate summary">>)>>}

StageOrder == <<"download", "convert", "stt", "summarize", "report">>

\* C16: the stages of a run are called in the order download, conversion,
\* transcription, summary, report, each at most once and only after all
\* earlier ones succeeded, and none after the run has ended
StagesInOrder ==
  \A p \in Procs :
    /\ \A i \in 1..Len(trace[p]) :
         IsStage(trace[p][i]) =>
           /\ i <= 5
           /\ trace[p][i].op = StageOrder[i]
           /\ \A j \in 1..(i - 1) : trace[p][j].out = "ok"
    /\ pc[p] \in DOMAIN Reason =>
         Len(trace[p]) < 5 /\ pc[p] = StageOrder[Len(trace[p]) + 1]
    /\ Ended(p) => ~IsStage(trace[p][Len(trace[p])])

\* the second run of an instance went through the five stages in order
WitnessC16 ==
  /\ runs[1] = 2
  /\ pc[1] = "returned"
  /\ AllFiveOk(trace[1])
  /\ Len(trace[1]) = 6

\* C17: no call of convert_video_to_audio returns with the video clip
\* still open
ClipReleased ==
  \A p \in Procs : ~clipOpen[p]

\* C18: the audio extractor called without the video, and the transcription
\* client called without the audio, report failure without writing a file
\* or posting a request, and the run ends with the error of that stage
MissingArtifactFails ==
  /\ call.done /\ call.stage = "convert" /\ call.fs.video = 0 =>
       /\ call.out.fs = call.fs
       /\ ~call.out.raised =>
            /\ call.out.ret = PyFalse
            /\ call.out.pc = "finally"
            /\ call.out.pending =
                 {<<"error", PyStr(<<"Failed to convert video to audio">>)>>}
  /\ call.done /\ call.stage = "stt" /\ call.fs.audio = 0 =>
       /\ call.out.fs = call.fs
       /\ ~call.out.sent
       /\ ~call.out.raised =>
            /\ call.out.ret = PyNone
            /\ call.out.pc = "finally"
            /\ call.out.pending =
                 {<<"error", PyStr(<<"Failed to convert speech to text">>)>>}

\* the transcription client was called without the audio file while the
\* service would have answered
WitnessC18 ==
  /\ call.done
  /\ call.stage = "stt"
  /\ call.fs.dir # 0
  /\ call.fs.audio = 0
  /\ call.env.kind = "json"
  /\ ~call.out.sent
  /\ call.out.ret = PyNone

\* the errors a stage meets inside its try block
InternalErrors == {"error", "open_error", "audio_error", "write_error"}

\* C19: an internal error of a stage (extraction, network, timeout, status,
\* unparsable answer, decoding) never leaves the stage as an exception: the
\* stage returns False or None
InternalErrorsReturned ==
  call.done /\ call.stage \in DOMAIN Reason /\ call.env.kind \in InternalErrors =>
    /\ ~call.out.raised
    /\ call.stage \in {"download", "convert"} => call.out.ret = PyFalse
    /\ call.stage \in RemoteStages => call.out.ret = PyNone
    /\ call.out.pc = "finally"

\* the request of the summarizer failed and the client returned None
WitnessC19 ==
  /\ call.done
  /\ call.stage = "summarize"
  /\ call.env.kind = "error"
  /\ call.out.sent
  /\ call.out.ret = PyNone

\* C20: when _setup_temp_directory completes, the workspace directory
\* exists and is empty, whatever was at the path before
SetupGivesEmptyWorkspace ==
  call.done /\ call.stage = "setup" /\ ~call.out.raised =>
    /\ DirExists(call.out.fs)
    /\ call.out.fs.dir = Caller
    /\ call.out.fs.video = 0
    /\ call.out.fs.audio = 0

\* the setup has completed on a directory that held a video and an audio
WitnessC20 ==
  /\ call.done
  /\ call.stage = "setup"
  /\ call.fs.dir # 0
  /\ call.fs.video # 0
  /\ call.fs.audio # 0
  /\ ~call.out.raised

\* p is inside process_youtube_url
Started(p) ==
  pc[p] \in {"download", "convert", "stt", "summarize", "report", "finally"}

\* every started run leaves process_youtube_url, by return or by exception
RunLeaves ==
  \A p \in Procs : Started(p) ~> Ended(p)

\* a started run makes at most five stage calls and one cleanup
RunLength ==
  \A p \in Procs : Started(p) => Len(trace[p]) <= 5

\* C21: every started run terminates: when each stage call returns, the run
\* eventually has performed the teardown and returned its result
RunReturnsResult ==
  \A p \in Procs : Started(p) ~> (pc[p] = "returned" /\ result[p] # {})

\* the invalid requests the handler is documented to answer with 400: a body
\* that is not JSON, a body without youtube_url, a URL that is empty after
\* trimming, a URL without a YouTube marker
ListedInvalid(req) ==
  \/ ~req.valid_json
  \/ ~req.has_url
  \/ req.is_str /\ Strip(req.url) = <<>>
  \/ req.is_str /\ ~IsYouTubeUrl(Strip(req.url))

\* C22: the handler answers a non-JSON body, a body without youtube_url, a
\* URL that is empty after trimming and a URL without a YouTube marker with
\* success=false and status 400, before a pipeline is constructed: no
\* workspace is created or deleted and no stage is invoked
InvalidRequestsGet400 ==
  \A p \in Procs :
    mode[p] = "api" /\ ListedInvalid(request[p]) =>
      /\ pc[p] = "responded"
      /\ response[p].status = 400
      /\ ~response[p].success
      /\ trace[p] = <<>>
      /\ runs[p] = 0

\* every request that does not pass the head of the handler is answered
\* without success and without a pipeline: with 400 when the handler could
\* read it, with 500 when reading it raised
RejectedBeforeConstruction ==
  \A p \in Procs :
    mode[p] = "api" /\ Validate(request[p]) # NoResponse =>
      /\ pc[p] = "responded"
      /\ ~response[p].success
      /\ response[p].data = {}
      /\ response[p].status = IF Readable(request[p]) THEN 400 ELSE 500
      /\ trace[p] = <<>>
      /\ runs[p] = 0

\* the step that takes in a request the handler rejects leaves the file
\* system as it is
RejectionKeepsFiles ==
  [][\A p \in Procs :
       pc[p] = "idle" /\ mode'[p] = "api" /\ Validate(request'[p]) # NoResponse
         => fs' = fs]_vars

\* C23: for a request that passed validation the response mirrors the
\* result of the pipeline: status 200, success and the result as data
\* exactly when the pipeline returned a result without the key error;
\* otherwise status 500, no success and, for a result with the key error,
\* its error string; never data and error together
ResponseMirrorsResult ==
  \A p \in Procs :
    mode[p] = "api" /\ pc[p] = "responded"
      /\ Validate(request[p]) = NoResponse =>
      LET r == response[p]
          res == result[p]
      IN /\ r.status = 200 <=> (res # {} /\ "error" \notin Keys(res))
         /\ r.status = 200 => r.success /\ r.data = res /\ r.error = <<>>
         /\ r.status # 200 =>
              r.status = 500 /\ ~r.success /\ r.data = {} /\ r.error # <<>>
         /\ \A kv \in res : kv[1] = "error" => r.error = kv[2].s
         /\ ~(r.data # {} /\ r.error # <<>>)

\* the handler has answered a request whose run returned a report
WitnessC23 ==
  /\ mode[1] = "api"
  /\ pc[1] = "responded"
  /\ AllFiveOk(trace[1])
  /\ result[1] = {<<"content", PyStr(<<"t2">>)>>}
  /\ response[1].status = 200
  /\ response[1].data = result[1]

====
